---- MODULE Spec2Model ----
(***************************************************************************)
(* A model of textra-combiner.py: the Textra text-export parser, the merge *)
(* and dedup loop of main, and the corrective transforms.                  *)
(*                                                                         *)
(* Python strings are TLA+ strings, handled with Len, SubSeq and \o.       *)
(* An optional value (Python None or a value) is None or Some(v).          *)
(* An epoch in milliseconds is the pair [sec, ms] that stands for          *)
(* sec * SEC_TO_MS + ms with 0 <= ms < SEC_TO_MS: Python integers are      *)
(* unbounded, and a millisecond epoch does not fit TLC's 32-bit integers. *)
(* The local timezone of datetime.timestamp() is taken to be UTC.          *)
(***************************************************************************)
EXTENDS Integers, Sequences, FiniteSets, TLC

SEC_TO_MS == 1000
MIN_TO_SEC == 60

None == [some |-> FALSE]
Some(v) == [some |-> TRUE, val |-> v]

(***************************************************************************)
(* String primitives of Python used by the program.                        *)
(***************************************************************************)
Char(s, i) == SubSeq(s, i, i)

\* str[i:] and str[:i] with 1-based positions.
From(s, i) == SubSeq(s, i, Len(s))
Upto(s, i) == SubSeq(s, 1, i)

IsSpace(c) == c \in {" ", "\t", "\n", "\r"}
IsDigit(c) == c \in {"0", "1", "2", "3", "4", "5", "6", "7", "8", "9"}

RECURSIVE lstrip(_)
lstrip(s) ==
    IF Len(s) > 0 /\ IsSpace(Char(s, 1)) THEN lstrip(From(s, 2)) ELSE s

RECURSIVE rstrip(_)
rstrip(s) ==
    IF Len(s) > 0 /\ IsSpace(Char(s, Len(s)))
    THEN rstrip(Upto(s, Len(s) - 1))
    ELSE s

\* str.strip()
strip(s) == lstrip(rstrip(s))

\* str.find(sep) + 1: the least position where sep occurs in s, 0 if none.
find(s, sep) ==
    LET hits == {i \in 1..(Len(s) - Len(sep) + 1) :
                    SubSeq(s, i, i + Len(sep) - 1) = sep}
    IN  IF hits = {} THEN 0 ELSE CHOOSE i \in hits : \A j \in hits : i <= j

\* str.split(sep, maxsplit=1): a sequence of one or two strings.
split1(s, sep) ==
    LET i == find(s, sep)
    IN  IF i = 0 THEN <<s>>
        ELSE <<Upto(s, i - 1), From(s, i + Len(sep))>>

\* str.replace(old, new): every non-overlapping occurrence, left to right.
RECURSIVE replace(_, _, _)
replace(s, old, new) ==
    LET i == find(s, old)
    IN  IF i = 0 THEN s
        ELSE Upto(s, i - 1) \o new \o replace(From(s, i + Len(old)), old, new)

\* sep.join(items)
RECURSIVE join(_, _)
join(sep, items) ==
    IF Len(items) = 0 THEN ""
    ELSE IF Len(items) = 1 THEN items[1]
    ELSE items[1] \o sep \o join(sep, Tail(items))

\* re.sub(r"[^\d]", "", s)
RECURSIVE sub_non_digits(_)
sub_non_digits(s) ==
    IF Len(s) = 0 THEN ""
    ELSE (IF IsDigit(Char(s, 1)) THEN Char(s, 1) ELSE "")
         \o sub_non_digits(From(s, 2))

\* re.sub(r"[\s]", "", s)
RECURSIVE sub_whitespace(_)
sub_whitespace(s) ==
    IF Len(s) = 0 THEN ""
    ELSE (IF IsSpace(Char(s, 1)) THEN "" ELSE Char(s, 1))
         \o sub_whitespace(From(s, 2))

(***************************************************************************)
(* datetime.strptime(raw, "%m/%d/%y %I:%M %p") and datetime.timestamp().   *)
(* strptime compiles the format to the anchored regular expression         *)
(*   (1[0-2]|0[1-9]|[1-9])/(3[0-1]|[1-2]\d|0[1-9]|[1-9]| [1-9])/(\d\d)\s+  *)
(*   (1[0-2]|0[1-9]|[1-9]):([0-5]\d|\d)\s+(am|pm)        (case-insensitive)*)
(* and rejects input with unconverted data after the match.  Every field   *)
(* is followed by a character that is not a digit, so a field matches      *)
(* exactly when the whole run of digits at that place is one of its forms. *)
(***************************************************************************)
RECURSIVE DigitRun(_)
DigitRun(s) ==
    IF Len(s) > 0 /\ IsDigit(Char(s, 1)) THEN 1 + DigitRun(From(s, 2)) ELSE 0

RECURSIVE SpaceRun(_)
SpaceRun(s) ==
    IF Len(s) > 0 /\ IsSpace(Char(s, 1)) THEN 1 + SpaceRun(From(s, 2)) ELSE 0

DigitVal(c) == (CHOOSE i \in 1..10 : Char("0123456789", i) = c) - 1

RECURSIVE ToNat(_)
ToNat(s) ==
    IF Len(s) = 0 THEN 0
    ELSE 10 * ToNat(Upto(s, Len(s) - 1)) + DigitVal(Char(s, Len(s)))

IsLeap(y) == (y % 4 = 0 /\ y % 100 # 0) \/ y % 400 = 0

DaysInMonth(y, m) ==
    IF m = 2 THEN (IF IsLeap(y) THEN 29 ELSE 28)
    ELSE IF m \in {4, 6, 9, 11} THEN 30 ELSE 31

\* Days from 1970-01-01 to the civil date y-m-d (proleptic Gregorian).
DaysFromCivil(y, m, d) ==
    LET yy  == IF m <= 2 THEN y - 1 ELSE y
        era == yy \div 400
        yoe == yy - era * 400
        mp  == IF m > 2 THEN m - 3 ELSE m + 9
        doy == (153 * mp + 2) \div 5 + d - 1
        doe == yoe * 365 + yoe \div 4 - yoe \div 100 + doy
    IN  era * 146097 + doe - 719468

\* The format "%m/%d/%y %I:%M %p" as its directives and literals; a space
\* of the format stands for \s+.
TimeFormat == <<"m", "/", "d", "/", "y", " ", "I", ":", "M", " ", "p">>

\* A numeric directive d finds n digits of value v at the head of the text
\* (after one space of padding when pad = 1): the length of what it
\* matches, 0 when it matches nothing.
FieldCheck(d, pad, n, v) ==
    IF CASE d = "y" -> n = 2
         [] d = "M" -> n \in {1, 2} /\ v <= 59
         [] d = "d" -> IF pad = 1 THEN n = 1 /\ v >= 1
                       ELSE n \in {1, 2} /\ v \in 1..31
         [] OTHER   -> n \in {1, 2} /\ v \in 1..12          \* %m, %I
    THEN pad + n ELSE 0

FieldDigits(d, s, pad, n) ==
    FieldCheck(d, pad, n, ToNat(SubSeq(s, pad + 1, pad + n)))

FieldPadded(d, s, pad) == FieldDigits(d, s, pad, DigitRun(From(s, pad + 1)))

\* Length of the text that the numeric directive d matches at the head of
\* s (%d also takes a space and one digit).
FieldLen(d, s) ==
    FieldPadded(d, s,
                IF d = "d" /\ Len(s) > 0 /\ Char(s, 1) = " " THEN 1 ELSE 0)

\* Match s against the rest fmt of the format; got holds the fields read so
\* far (p is 0 for AM, 12 for PM).
RECURSIVE Match(_, _, _)
RECURSIVE MatchField(_, _, _, _)
Match(fmt, s, got) ==
    IF Len(fmt) = 0
    THEN (IF Len(s) = 0 THEN [raised |-> FALSE, fields |-> got]
                        ELSE [raised |-> TRUE])
    ELSE IF Head(fmt) \in {"/", ":"}
    THEN (IF Len(s) > 0 /\ Char(s, 1) = Head(fmt)
          THEN Match(Tail(fmt), From(s, 2), got)
          ELSE [raised |-> TRUE])
    ELSE IF Head(fmt) = " "
    THEN (IF SpaceRun(s) >= 1
          THEN Match(Tail(fmt), From(s, SpaceRun(s) + 1), got)
          ELSE [raised |-> TRUE])
    ELSE IF Head(fmt) = "p"
    THEN (IF Len(s) >= 2 /\ Char(s, 1) \in {"a", "A", "p", "P"}
                         /\ Char(s, 2) \in {"m", "M"}
          THEN Match(Tail(fmt), From(s, 3),
                     [got EXCEPT !.p = IF Char(s, 1) \in {"p", "P"}
                                       THEN 12 ELSE 0])
          ELSE [raised |-> TRUE])
    ELSE MatchField(fmt, s, got, FieldLen(Head(fmt), s))

\* The numeric directive at the head of fmt matches the first n characters
\* of s (none when n = 0).
MatchField(fmt, s, got, n) ==
    IF n > 0
    THEN Match(Tail(fmt), From(s, n + 1),
               [got EXCEPT ![Head(fmt)] = ToNat(sub_non_digits(Upto(s, n)))])
    ELSE [raised |-> TRUE]

\* The datetime of the fields f in the given year; a day that the month
\* does not have is a ValueError.
DateOf(f, year) ==
    IF f.d > DaysInMonth(year, f.m) THEN [raised |-> TRUE]
    ELSE [raised |-> FALSE, year |-> year, month |-> f.m, day |-> f.d,
          hour |-> (f.I % 12) + f.p, minute |-> f.M]

\* The result of strptime from the result r of the match; %y takes 00-68
\* for 2000-2068 and 69-99 for 1969-1999.
Matched(r) ==
    IF r.raised THEN [raised |-> TRUE]
    ELSE DateOf(r.fields, IF r.fields.y <= 68 THEN 2000 + r.fields.y
                                              ELSE 1900 + r.fields.y)

\* strptime: [raised |-> TRUE] (ValueError), or the fields of the datetime.
strptime(raw) ==
    Matched(Match(TimeFormat, raw,
                  [m |-> 0, d |-> 0, y |-> 0, I |-> 0, M |-> 0, p |-> 0]))

\* datetime.timestamp() of a naive datetime, in whole seconds.
timestamp(dt) ==
    ((DaysFromCivil(dt.year, dt.month, dt.day) * 24 + dt.hour) * 60
        + dt.minute) * MIN_TO_SEC

\* int(dt.timestamp()) * SEC_TO_MS
EpochOf(dt) ==
    IF dt.raised THEN [raised |-> TRUE]
    ELSE [raised |-> FALSE, val |-> [sec |-> timestamp(dt), ms |-> 0]]

\* datetime_to_epoch: the epoch in ms, or [raised |-> TRUE] when strptime
\* raises ValueError.
datetime_to_epoch(raw) == EpochOf(strptime(raw))

\* The unpacking of the split without the number[:-1] that drops the ")".
NameAndNumberKeepParen(halves) ==
    IF Len(halves) # 2 THEN [raised |-> TRUE]
    ELSE [raised |-> FALSE,
          name   |-> strip(halves[1]),
          number |-> halves[2]]

\* get_name_and_number, lines 56-59, on the result of the split on "(".
NameAndNumber(halves) ==
    IF Len(halves) # 2 THEN [raised |-> TRUE]
    ELSE [raised |-> FALSE,
          name   |-> strip(halves[1]),
          number |-> Upto(halves[2], Len(halves[2]) - 1)]

\* The header that parses whatever the line is.
get_name_and_number_lenient(line) ==
    [raised |-> FALSE, name |-> strip(line), number |-> ""]

\* get_name_and_number: name and number, or ValueError when the line has
\* no "(" and the two-name unpacking of split fails.
get_name_and_number(line) ==
    NameAndNumber(split1(replace(rstrip(line), "Conversation with ", ""),
                         "("))

\* str(x) of an optional string.
str(x) == IF x.some THEN x.val ELSE "None"

\* An sms element as ET.Element("sms", attrib=attribs) builds it: no children.
SmsElement(attribs) ==
    [tag |-> "sms", attrib |-> attribs, parts |-> <<>>, addrs |-> <<>>]

\* parse_textra_line, lines 77-94: the element for the parsed fields.
LineElement(epoch, name, message, number, provided_name) ==
    SmsElement(
        [protocol |-> "0",
         address |-> str(number),
         date |-> epoch,
         type |-> IF name = "Me" THEN "2" ELSE "1",
         subject |-> "null",
         body |-> message,
         toa |-> "null",
         sc_toa |-> "null",
         service_center |-> "null",
         read |-> "1",
         status |-> "-1",
         locked |-> "0",
         date_sent |-> epoch,
         sub_id |-> "1",
         contact_name |-> IF provided_name.some
                          THEN provided_name.val ELSE name])

\* parse_textra_line, lines 70-74: the time is parsed, then the rest is
\* split on ": ".
LineTimed(epoch, p2, number, provided_name) ==
    IF epoch.raised THEN [raised |-> TRUE]
    ELSE IF Len(p2) # 2 THEN [raised |-> TRUE]
    ELSE [raised |-> FALSE,
          val |-> LineElement(epoch.val, p2[1], p2[2], number, provided_name)]

\* parse_textra_line, line 69, on the result p1 of the split on "] ".
LineSplit(p1, number, provided_name) ==
    IF Len(p1) # 2 THEN [raised |-> TRUE]
    ELSE LineTimed(datetime_to_epoch(From(p1[1], 2)), split1(p1[2], ": "),
                   number, provided_name)

\* parse_textra_line: the sms element, or ValueError (a failed unpacking of
\* split, or a timestamp that strptime rejects).
parse_textra_line(line, number, provided_name) ==
    LineSplit(split1(line, "] "), number, provided_name)

(***************************************************************************)
(* Elements.  An element is [tag, attrib, parts, addrs]: attrib is the     *)
(* attribute dictionary (a function on the attribute names it has), parts  *)
(* is findall("parts"), the sequence of its parts children, each the       *)
(* sequence of the attrib of its part children, and addrs is               *)
(* findall("addrs"), likewise for its addr children.  The date attribute   *)
(* is kept as the number that int() reads from it.                         *)
(***************************************************************************)
Has(attrib, key) == key \in DOMAIN attrib

\* dict.get(key, default)
Get(attrib, key, default) == IF Has(attrib, key) THEN attrib[key] ELSE default

\* "".join(part.attrib.get("text", "").strip() for part in parts)
RECURSIVE PartsText(_)
PartsText(parts) ==
    IF Len(parts) = 0 THEN ""
    ELSE strip(Get(parts[1], "text", "")) \o PartsText(Tail(parts))

\* n // SEC_TO_MS on an epoch [sec, ms].
FloorDivSecToMs(n) == n.sec

\* make_lookup_tuple at second precision: the division by MIN_TO_SEC left out.
make_lookup_tuple_no_minute(e) ==
    IF e.tag = "sms" /\ ~Has(e.attrib, "body")
    THEN [raised |-> TRUE, exc |-> "AttributeError"]
    ELSE IF ~Has(e.attrib, "date") THEN [raised |-> TRUE, exc |-> "TypeError"]
    ELSE IF e.tag = "mms" /\ Len(e.parts) = 0
    THEN [raised |-> TRUE, exc |-> "UnboundLocalError"]
    ELSE [raised |-> FALSE,
          val |-> << sub_non_digits(Get(e.attrib, "address", "NO-ADDRESS")),
                     FloorDivSecToMs(e.attrib.date),
                     sub_whitespace(
                        IF e.tag = "sms" THEN strip(e.attrib.body)
                        ELSE IF e.tag = "mms"
                        THEN PartsText(e.parts[Len(e.parts)])
                        ELSE "") >>]

\* make_lookup_tuple: the fingerprint <<digits of the address, minute of the
\* date, text without whitespace>>, or the exception the call raises.  The
\* body of an sms is read first (AttributeError on None.strip() when the
\* attribute is missing); the text of an mms is that of its last parts child
\* and stays unbound when it has none, which the return statement finds
\* after int() has read the date (TypeError on a missing date).
make_lookup_tuple(e) ==
    IF e.tag = "sms" /\ ~Has(e.attrib, "body")
    THEN [raised |-> TRUE, exc |-> "AttributeError"]
    ELSE IF ~Has(e.attrib, "date") THEN [raised |-> TRUE, exc |-> "TypeError"]
    ELSE IF e.tag = "mms" /\ Len(e.parts) = 0
    THEN [raised |-> TRUE, exc |-> "UnboundLocalError"]
    ELSE [raised |-> FALSE,
          val |-> << sub_non_digits(Get(e.attrib, "address", "NO-ADDRESS")),
                     FloorDivSecToMs(e.attrib.date) \div MIN_TO_SEC,
                     sub_whitespace(
                        IF e.tag = "sms" THEN strip(e.attrib.body)
                        ELSE IF e.tag = "mms"
                        THEN PartsText(e.parts[Len(e.parts)])
                        ELSE "") >>]

(***************************************************************************)
(* State of one run of main.                                               *)
(***************************************************************************)
VARIABLES
    xml_filepath,       \* None, or Some(the records of the archive file)
    txt_filepaths,      \* None, or Some(sequence of exports); an export is
                        \* the sequence of the lines of its file
    strip_phrases,      \* None, or Some(set of phrases)
    flag_strip_invalid_address,
    flag_fix_sent_from_address,
    pc,                 \* "chain", "merge", "strip", "strip_invalid", "fix",
                        \* "write", "done", "failed"
    read_tree,          \* children of the root of read_tree
    src,                \* source the chain is at: 0 the archive, k export k
    pos,                \* records (archive) or lines (export) taken from it
    name,               \* parse_textra_file: name
    number,             \* parse_textra_file: number
    current_raw_message,\* parse_textra_file: current_raw_message
    tree,               \* children of the root of tree
    lookup,             \* set of fingerprints seen
    raised,             \* "" or the exception that ended the run
    stream,             \* history: the messages the merge loop has taken,
                        \* each with the source and place it came from
    kept,               \* history: the places in stream of the messages
                        \* appended to tree
    passes,             \* strip_texts: passes of the while loop so far
    before,             \* history: tree as it was when the corrective
                        \* transform that ran last was called
    output              \* None, or Some(what was written to the output file)

vars == <<xml_filepath, txt_filepaths, strip_phrases,
          flag_strip_invalid_address, flag_fix_sent_from_address, pc,
          read_tree, src, pos, name, number, current_raw_message, tree,
          lookup, raised, stream, kept, passes, before, output>>

inputs == <<xml_filepath, txt_filepaths, strip_phrases,
            flag_strip_invalid_address, flag_fix_sent_from_address>>

parser == <<name, number, current_raw_message>>

\* State of main before its first statement, for the given arguments.
Start(xml, txts, phrases, stripInvalid, fixSentFrom) ==
    /\ xml_filepath = xml
    /\ txt_filepaths = txts
    /\ strip_phrases = phrases
    /\ flag_strip_invalid_address = stripInvalid
    /\ flag_fix_sent_from_address = fixSentFrom
    /\ pc = "chain"
    /\ read_tree = <<>>
    /\ src = 0
    /\ pos = 0
    /\ name = None
    /\ number = None
    /\ current_raw_message = <<>>
    /\ tree = <<>>
    /\ lookup = {}
    /\ raised = ""
    /\ stream = <<>>
    /\ kept = <<>>
    /\ passes = 0
    /\ before = <<>>
    /\ output = None

\* The run ends with exception exc.
Raise(exc) ==
    /\ pc' = "failed"
    /\ raised' = exc

(***************************************************************************)
(* main, lines 214-231: read the archive or make an empty one, make the    *)
(* new tree and the lookup set, chain the sources.  The argument list of   *)
(* chain is unpacked when the call is made, so iterating txt_filepaths     *)
(* raises TypeError there when it is None.                                 *)
(***************************************************************************)
BuildChain ==
    /\ pc = "chain"
    /\ read_tree' = IF xml_filepath.some THEN xml_filepath.val ELSE <<>>
    /\ tree' = <<>>
    /\ lookup' = {}
    /\ IF txt_filepaths.some
       THEN pc' = "merge" /\ UNCHANGED raised
       ELSE Raise("TypeError")
    /\ UNCHANGED <<inputs, src, pos, parser, stream, kept, passes, before,
                   output>>

\* lookup.add(key)
lookup_add(seen, key) == seen \cup {key}

\* tree.getroot().append(message) put at the front instead.
insert_first(children, message) == <<message>> \o children

\* tree.getroot().append(message)
append(children, message) == Append(children, message)

\* The body of the merge loop that forgets to record the fingerprint.
LoopBodyNoAdd(message, at) ==
    LET key == make_lookup_tuple(message)
    IN  IF key.raised
        THEN /\ Raise(key.exc)
             /\ UNCHANGED <<tree, lookup, stream, kept>>
        ELSE /\ UNCHANGED <<pc, raised>>
             /\ stream' = Append(stream,
                                 [src |-> src, at |-> at, msg |-> message])
             /\ lookup' = lookup
             /\ IF key.val \notin lookup
                THEN /\ tree' = append(tree, message)
                     /\ kept' = Append(kept, Len(stream) + 1)
                ELSE UNCHANGED <<tree, kept>>

\* One iteration of the merge loop (lines 234-237) on the message taken
\* from place at of the current source.
LoopBody(message, at) ==
    LET key == make_lookup_tuple(message)
    IN  IF key.raised
        THEN /\ Raise(key.exc)
             /\ UNCHANGED <<tree, lookup, stream, kept>>
        ELSE /\ UNCHANGED <<pc, raised>>
             /\ stream' = Append(stream,
                                 [src |-> src, at |-> at, msg |-> message])
             /\ IF key.val \notin lookup
                THEN /\ lookup' = lookup_add(lookup, key.val)
                     /\ tree' = append(tree, message)
                     /\ kept' = Append(kept, Len(stream) + 1)
                ELSE UNCHANGED <<tree, lookup, kept>>

\* The loop takes the next record of the archive.
MergeArchive ==
    /\ pc = "merge"
    /\ src = 0
    /\ pos < Len(read_tree)
    /\ pos' = pos + 1
    /\ LoopBody(read_tree[pos + 1], pos + 1)
    /\ UNCHANGED <<inputs, read_tree, src, parser, passes, before, output>>

\* The archive is exhausted: chain moves on to the first export.
ArchiveExhausted ==
    /\ pc = "merge"
    /\ src = 0
    /\ pos = Len(read_tree)
    /\ src' = 1
    /\ pos' = 0
    /\ UNCHANGED <<inputs, pc, read_tree, parser, tree, lookup, raised,
                   stream, kept, passes, before, output>>

\* " ".join(current_raw_message) joined with nothing between the lines.
JoinNoSpace(lines) == join("", lines)

\* " ".join(current_raw_message)
JoinRaw(lines) == join(" ", lines)

\* parse_textra_file, lines 108-123: one line of the current export.
ReadLine ==
    /\ pc = "merge"
    /\ src \in 1..Len(txt_filepaths.val)
    /\ pos < Len(txt_filepaths.val[src])
    /\ pos' = pos + 1
    /\ LET line == strip(txt_filepaths.val[src][pos + 1])
       IN  IF Len(line) = 0
           THEN UNCHANGED <<pc, raised, parser, tree, lookup, stream, kept>>
           ELSE IF name = None /\ number = None
           THEN LET h == get_name_and_number(line)
                IN  IF h.raised
                    THEN /\ Raise("ValueError")
                         /\ UNCHANGED <<parser, tree, lookup, stream, kept>>
                    ELSE /\ name' = Some(h.name)
                         /\ number' = Some(h.number)
                         /\ UNCHANGED <<pc, raised, current_raw_message,
                                        tree, lookup, stream, kept>>
           ELSE LET trial == parse_textra_line(line, number, name)
                    flush == parse_textra_line(JoinRaw(current_raw_message),
                                               number, name)
                IN  IF trial.raised \/ flush.raised
                    THEN /\ current_raw_message' =
                                Append(current_raw_message, line)
                         /\ UNCHANGED <<pc, raised, name, number, tree,
                                        lookup, stream, kept>>
                    ELSE /\ LoopBody(flush.val, pos + 1)
                         /\ current_raw_message' =
                                IF make_lookup_tuple(flush.val).raised
                                THEN current_raw_message
                                ELSE <<line>>
                         /\ UNCHANGED <<name, number>>
    /\ UNCHANGED <<inputs, read_tree, src, passes, before, output>>

\* parse_textra_file, lines 124-127: the lines are exhausted and the final
\* message is parsed outside the try statement and yielded; after the loop
\* body the generator ends and chain moves on to the next export.
FinalYield ==
    /\ pc = "merge"
    /\ src \in 1..Len(txt_filepaths.val)
    /\ pos = Len(txt_filepaths.val[src])
    /\ LET flush == parse_textra_line(JoinRaw(current_raw_message),
                                      number, name)
       IN  IF flush.raised
           THEN /\ Raise("ValueError")
                /\ UNCHANGED <<src, pos, parser, tree, lookup, stream, kept>>
           ELSE /\ LoopBody(flush.val, pos + 1)
                /\ IF make_lookup_tuple(flush.val).raised
                   THEN UNCHANGED <<src, pos, parser>>
                   ELSE /\ src' = src + 1
                        /\ pos' = 0
                        /\ name' = None
                        /\ number' = None
                        /\ current_raw_message' = <<>>
    /\ UNCHANGED <<inputs, read_tree, passes, before, output>>

\* Every source is exhausted: the merge loop ends.
MergeDone ==
    /\ pc = "merge"
    /\ src = Len(txt_filepaths.val) + 1
    /\ pc' = "strip"
    /\ UNCHANGED <<inputs, read_tree, src, pos, parser, tree, lookup, raised,
                   stream, kept, passes, before, output>>

(***************************************************************************)
(* The corrective transforms.                                              *)
(***************************************************************************)
\* items.remove(x) taking the last element out instead of the one visited.
RemoveLast(items, i) == SubSeq(items, 1, Len(items) - 1)

\* items.remove(x), x being the element at place i.
RemoveAt(items, i) == SubSeq(items, 1, i - 1) \o SubSeq(items, i + 1, Len(items))

\* for x in items: if <x matches>: items.remove(x)
\* The iteration is by index over the live list: the visit of place i
\* removes the element there when it matches (hits[i]), the later elements
\* move down one place, and the next visit is of place i + 1.  The result
\* is the list left and the number of elements removed.
RECURSIVE IterRemove(_, _, _, _)
IterRemove(items, hits, i, n) ==
    IF i > Len(items) THEN [items |-> items, removed |-> n]
    ELSE IF hits[i]
    THEN IterRemove(RemoveAt(items, i), RemoveAt(hits, i), i + 1, n + 1)
    ELSE IterRemove(items, hits, i + 1, n)

\* msg.attrib.get("body", "").strip() in strip_phrases
Stripped(msg, phrases) == strip(Get(msg.attrib, "body", "")) \in phrases

\* One pass of the for loop of strip_texts, lines 143-147.
StripPass(children, phrases) ==
    IterRemove(children,
               [i \in DOMAIN children |-> Stripped(children[i], phrases)],
               1, 0)

\* strip_texts with a single pass, as without the while loop.
StripTextsOnce ==
    /\ pc = "strip"
    /\ IF strip_phrases.some
       THEN /\ tree' = StripPass(tree, strip_phrases.val).items
            /\ passes' = passes + 1
            /\ before' = IF passes = 0 THEN tree ELSE before
            /\ pc' = "strip_invalid"
       ELSE /\ pc' = "strip_invalid"
            /\ UNCHANGED <<tree, passes, before>>
    /\ UNCHANGED <<inputs, read_tree, src, pos, parser, lookup, raised,
                   stream, kept, output>>

\* strip_texts whose loop does not end on its first pass.
StripTextsExtraPass ==
    /\ pc = "strip"
    /\ IF strip_phrases.some
       THEN /\ tree' = StripPass(tree, strip_phrases.val).items
            /\ passes' = passes + 1
            /\ before' = IF passes = 0 THEN tree ELSE before
            /\ pc' = IF StripPass(tree, strip_phrases.val).removed = 0
                        /\ passes > 0
                     THEN "strip_invalid" ELSE "strip"
       ELSE /\ pc' = "strip_invalid"
            /\ UNCHANGED <<tree, passes, before>>
    /\ UNCHANGED <<inputs, read_tree, src, pos, parser, lookup, raised,
                   stream, kept, output>>

\* main, lines 240-241, and one pass of the while loop of strip_texts: the
\* loop ends with the pass that strips nothing.
StripTexts ==
    /\ pc = "strip"
    /\ IF strip_phrases.some
       THEN /\ tree' = StripPass(tree, strip_phrases.val).items
            /\ passes' = passes + 1
            /\ before' = IF passes = 0 THEN tree ELSE before
            /\ pc' = IF StripPass(tree, strip_phrases.val).removed = 0
                     THEN "strip_invalid" ELSE "strip"
       ELSE /\ pc' = "strip_invalid"
            /\ UNCHANGED <<tree, passes, before>>
    /\ UNCHANGED <<inputs, read_tree, src, pos, parser, lookup, raised,
                   stream, kept, output>>

InvalidToken == "insert-address-token"

\* addr.attrib.get("address", None) == "insert-address-token"
IsInvalid(addr) == Has(addr, "address") /\ addr.address = InvalidToken

\* The for loop over one addrs child, lines 164-166.
StripAddrs(addrs) ==
    IterRemove(addrs, [i \in DOMAIN addrs |-> IsInvalid(addrs[i])], 1, 0).items

\* strip_invalid_address on the children of the root.
strip_invalid_address(children) ==
    [i \in DOMAIN children |->
        IF children[i].tag = "mms"
        THEN [children[i] EXCEPT
                !.addrs = [a \in DOMAIN @ |-> StripAddrs(@[a])]]
        ELSE children[i]]

\* main, lines 244-245.
StripInvalidAddress ==
    /\ pc = "strip_invalid"
    /\ pc' = "fix"
    /\ IF flag_strip_invalid_address
       THEN /\ tree' = strip_invalid_address(tree)
            /\ before' = tree
       ELSE UNCHANGED <<tree, before>>
    /\ UNCHANGED <<inputs, read_tree, src, pos, parser, lookup, raised,
                   stream, kept, passes, output>>

\* The addresses of the given participants, an absent one as "".
Addresses(addrs) == [i \in DOMAIN addrs |-> Get(addrs[i], "address", "")]

Is137(addr) == Has(addr, "type") /\ addr.type = "137"

\* The new address from every participant, whatever its type.
NewAddressOfAll(addrs) == join("~", Addresses(addrs))

\* The new address without the second join: the participants of type 137
\* only, whatever their join is.
NewAddressNoFallback(addrs) == join("~", Addresses(SelectSeq(addrs, Is137)))

\* Lines 179-187 for one addrs child: the "~"-join of the addresses of the
\* participants of type 137 or, when that is the empty string, of all.
NewAddress(addrs) ==
    IF join("~", Addresses(SelectSeq(addrs, Is137))) = ""
    THEN join("~", Addresses(addrs))
    ELSE join("~", Addresses(SelectSeq(addrs, Is137)))

\* The for loop over the addrs children of one mms, lines 178-187:
\* new_address, a local of the function, is assigned once per child.
RECURSIVE OverAddrs(_, _)
OverAddrs(addrsChildren, new_address) ==
    IF Len(addrsChildren) = 0 THEN new_address
    ELSE OverAddrs(Tail(addrsChildren), Some(NewAddress(Head(addrsChildren))))

\* attrib[key] = value
SetItem(attrib, key, value) ==
    [k \in DOMAIN attrib \cup {key} |-> IF k = key THEN value ELSE attrib[k]]

\* fix_sent_from_address from child i on: new_address is what the records
\* before left in the local (None while it is unbound).  Reading it unbound
\* on line 188 raises UnboundLocalError.
RECURSIVE FixFrom(_, _, _)
FixedAt(children, i, new_address) ==
    IF ~new_address.some
    THEN [raised |-> TRUE, exc |-> "UnboundLocalError", children |-> children]
    ELSE FixFrom([children EXCEPT ![i].attrib =
                     SetItem(@, "address", new_address.val)],
                 i + 1, new_address)

FixFrom(children, i, new_address) ==
    IF i > Len(children) THEN [raised |-> FALSE, children |-> children]
    ELSE IF children[i].tag = "mms" /\ ~Has(children[i].attrib, "address")
    THEN FixedAt(children, i, OverAddrs(children[i].addrs, new_address))
    ELSE FixFrom(children, i + 1, new_address)

fix_sent_from_address(children) == FixFrom(children, 1, None)

\* main, lines 248-249.
FixSentFromAddress ==
    /\ pc = "fix"
    /\ IF flag_fix_sent_from_address
       THEN /\ before' = tree
            /\ tree' = fix_sent_from_address(tree).children
            /\ IF fix_sent_from_address(tree).raised
               THEN Raise(fix_sent_from_address(tree).exc)
               ELSE pc' = "write" /\ UNCHANGED raised
       ELSE /\ pc' = "write"
            /\ UNCHANGED <<tree, before, raised>>
    /\ UNCHANGED <<inputs, read_tree, src, pos, parser, lookup, stream, kept,
                   passes, output>>

\* str(n) of a natural number.
RECURSIVE str_int(_)
str_int(n) ==
    IF n < 10 THEN SubSeq("0123456789", n + 1, n + 1)
    ELSE str_int(n \div 10) \o SubSeq("0123456789", (n % 10) + 1, (n % 10) + 1)

\* main, lines 252-265: set the count of the root and write the tree to the
\* output file, which is opened here and nowhere before.  The path is
\* main's default, "output.xml", taken to be writable; backup_date is the
\* clock's reading and is left out of what is recorded as written.
WriteOutput ==
    /\ pc = "write"
    /\ pc' = "done"
    /\ output' = Some([count |-> str_int(Len(tree)), children |-> tree])
    /\ UNCHANGED <<inputs, read_tree, src, pos, parser, tree, lookup, raised,
                   stream, kept, passes, before>>

Next ==
    \/ BuildChain
    \/ MergeArchive
    \/ ArchiveExhausted
    \/ ReadLine
    \/ FinalYield
    \/ MergeDone
    \/ StripTexts
    \/ StripInvalidAddress
    \/ FixSentFromAddress
    \/ WriteOutput

\* The steps of a run that has no archive.
NextParse ==
    \/ BuildChain
    \/ ArchiveExhausted
    \/ ReadLine
    \/ FinalYield
    \/ MergeDone
    \/ StripTexts
    \/ StripInvalidAddress
    \/ FixSentFromAddress
    \/ WriteOutput

\* The steps of a run that has no export.
NextArchive ==
    \/ BuildChain
    \/ MergeArchive
    \/ ArchiveExhausted
    \/ MergeDone
    \/ StripTexts
    \/ StripInvalidAddress
    \/ FixSentFromAddress
    \/ WriteOutput

(***************************************************************************)
(* Inputs.                                                                 *)
(***************************************************************************)
MaxArchive == 2     \* most records in the archive
MaxFiles == 2       \* most exports on the command line
MaxLines == 3       \* most lines after the first line of an export

SeqsUpTo(S, n) == UNION {[1..k -> S] : k \in 0..n}

HeaderJane == "Conversation with Jane Doe (+1 555-0100)"
HeaderBob == "Conversation with Bob (15550100)"
HeaderBad == "Conversation with Jane Doe"
LineHi == "[1/2/24 9:05 AM] Jane Doe: Hi"
LineHello == "[1/2/24 9:06 AM] Me: Hello back"
LineHiComma == "[1/2/24, 9:05 AM] Jane Doe: Hi"
LineHelloComma == "[1/2/24, 9:06 AM] Me: Hello back"
LineWorld == "  world"
LineBobHi == "[1/2/24 9:05 AM] Bob: H i"

\* An sms record of an archive.
ArchiveSms(address, sec, ms, body) ==
    SmsElement([address |-> address, date |-> [sec |-> sec, ms |-> ms],
                type |-> "1", body |-> body, read |-> "1"])

\* An mms record of an archive: no address attribute, one parts child when
\* texts is given, one addrs child when participants is given.
ArchiveMms(sec, ms, texts, participants) ==
    [tag |-> "mms",
     attrib |-> [date |-> [sec |-> sec, ms |-> ms], msg_box |-> "1"],
     parts |-> IF texts.some
               THEN << [i \in 1..Len(texts.val) |->
                          [seq |-> "0", text |-> texts.val[i]]] >>
               ELSE <<>>,
     addrs |-> IF participants.some THEN <<participants.val>> ELSE <<>>]

\* Archive records of the merge: the first three agree on the digits of the
\* address and on the text without whitespace; the first two lie in the
\* minute of LineHi, the third one millisecond later, in the next minute.
ArchiveRecords ==
    { ArchiveSms("15550100", 1704186330, 500, "Hi "),
      ArchiveSms("+1 (555) 0100", 1704186359, 999, " H i"),
      ArchiveSms("15550100", 1704186360, 0, "Hi"),
      ArchiveMms(1704186330, 0, Some(<<" H", "i ">>), None),
      ArchiveMms(1704186330, 0, None, None) }

ExportFiles ==
    { <<HeaderJane, LineHi, LineHello>>,
      <<HeaderJane, LineHi, "", LineHi, LineWorld>>,
      <<HeaderBob, LineBobHi>> }

\* Runs of the merge: an archive (or none) and a list of exports (or none).
InitMerge ==
    \E xml \in {None} \cup {Some(a) : a \in SeqsUpTo(ArchiveRecords, MaxArchive)},
       txts \in {None} \cup {Some(f) : f \in SeqsUpTo(ExportFiles, MaxFiles)} :
        Start(xml, txts, None, FALSE, FALSE)

SpecMerge == InitMerge /\ [][Next]_vars

ParseLines ==
    {LineHi, LineHello, LineHiComma, LineHelloComma, LineWorld,
     "see] you: ok ", ""}

\* Runs on one export alone: a first line and up to MaxLines more.
InitParse ==
    \E h \in {HeaderJane, HeaderBad, ""}, ls \in SeqsUpTo(ParseLines, MaxLines) :
        Start(None, Some(<< <<h>> \o ls >>), None, FALSE, FALSE)

SpecParse == InitParse /\ [][NextParse]_vars

MaxStrip == 4           \* most records in the archive of a strip run
MaxMms == 2             \* most records in the archive of an address run
MaxParticipants == 2    \* most addr children of an addrs element

\* Archive records of the strip runs: three with the body "p" after
\* trimming and distinct fingerprints, one other sms, and an mms, which has
\* no body attribute.
StripRecords ==
    { ArchiveSms("15550100", 1704186300, 0, "p"),
      ArchiveSms("15550100", 1704186360, 0, " p "),
      ArchiveSms("15550111", 1704186300, 0, "p"),
      ArchiveSms("15550100", 1704186300, 0, "q"),
      ArchiveMms(1704186300, 0, Some(<<"p">>), None) }

PhraseSets == {None, Some({}), Some({"p"}), Some({"p", ""})}

\* Runs of strip_texts: an archive, no export, a set of phrases or none.
InitStrip ==
    \E a \in SeqsUpTo(StripRecords, MaxStrip), phrases \in PhraseSets :
        Start(Some(a), Some(<<>>), phrases, FALSE, FALSE)

SpecStrip == InitStrip /\ [][NextArchive]_vars

Participants ==
    { [type |-> "151", address |-> InvalidToken],
      [type |-> "137", address |-> "A"],
      [type |-> "137", address |-> "B"],
      [type |-> "137", address |-> ""] }

\* The mms records of the address runs, for the minute they are given (a
\* minute of its own makes the fingerprint distinct): without an address
\* attribute, with no addrs child or one of up to MaxParticipants entries;
\* and with an address attribute.  And one sms.
AddrRecords(minute) ==
    {ArchiveMms(60 * minute, 0, Some(<<"pic">>), p) :
        p \in {None} \cup {Some(l) : l \in SeqsUpTo(Participants, MaxParticipants)}}
    \cup
    {[ArchiveMms(60 * minute, 0, Some(<<"pic">>), Some(l))
        EXCEPT !.attrib = SetItem(@, "address", "X")] :
        l \in { << >>, << [type |-> "137", address |-> "A"],
                          [type |-> "151", address |-> InvalidToken],
                          [type |-> "151", address |-> InvalidToken] >> }}
    \cup {ArchiveSms("15550100", 60 * minute, 0, "q")}

\* The records that follow the first one of an archive, for their minute:
\* an mms without address attribute and without addrs child, one with an
\* empty addrs, one with a sender and a recipient, one with two adjacent
\* entries of the invalid address; and one sms.
LaterRecords(minute) ==
    {ArchiveMms(60 * minute, 0, Some(<<"pic">>), p) :
        p \in { None, Some(<< >>),
                Some(<< [type |-> "137", address |-> "A"],
                        [type |-> "151", address |-> "C"] >>),
                Some(<< [type |-> "151", address |-> InvalidToken],
                        [type |-> "151", address |-> InvalidToken] >>) }}
    \cup {ArchiveSms("15550100", 60 * minute, 0, "q")}

\* Archives of k records, the record at place i of minute i: any record
\* first, then records of LaterRecords.
RECURSIVE ArchivesOf(_)
ArchivesOf(k) ==
    IF k = 0 THEN {<<>>}
    ELSE IF k = 1 THEN {<<r>> : r \in AddrRecords(1)}
    ELSE {Append(a, r) : a \in ArchivesOf(k - 1), r \in LaterRecords(k)}

AddrArchives == UNION {ArchivesOf(k) : k \in 0..MaxMms}

\* Runs of the address transforms: an archive of mms records, no export.
InitAddrs ==
    \E a \in AddrArchives, stripInvalid \in BOOLEAN, fixSentFrom \in BOOLEAN :
        Start(Some(a), Some(<<>>), None, stripInvalid, fixSentFrom)

SpecAddrs == InitAddrs /\ [][NextArchive]_vars

TypeOK ==
    /\ pc \in {"chain", "merge", "strip", "strip_invalid", "fix", "write",
               "done", "failed"}
    /\ (pc = "failed") = (raised # "")
    /\ Len(kept) = Len(tree) \/ pc \notin {"chain", "merge", "failed"}

(***************************************************************************)
(* Properties of the merge loop.                                           *)
(***************************************************************************)
\* The merge loop is running or has just ended: tree is as the loop left it.
MergePhase == pc = "merge" \/ (pc = "strip" /\ passes = 0)

Range(f) == {f[i] : i \in DOMAIN f}

Fingerprint(e) == make_lookup_tuple(e).val

\* Place a comes before place b in the concatenated input stream.
Before(a, b) == a.src < b.src \/ (a.src = b.src /\ a.at < b.at)

\* C1.  Order preservation: the records of tree are messages of the input
\* stream (archive first, then the exports in argument order, then the
\* order within the export) at strictly increasing places of that stream,
\* so no kept record precedes a kept record that came earlier.
C1_OrderPreserved ==
    MergePhase =>
        /\ \A i, j \in DOMAIN stream : i < j => Before(stream[i], stream[j])
        /\ \A i \in DOMAIN stream :
              stream[i].src = 0 => stream[i].msg = read_tree[stream[i].at]
        /\ Len(kept) = Len(tree)
        /\ \A i \in DOMAIN tree : tree[i] = stream[kept[i]].msg
        /\ \A i, j \in DOMAIN tree :
              i < j => Before(stream[kept[i]], stream[kept[j]])

\* The loop has ended with records kept from the archive and from two
\* exports, and with at least one record dropped.
C1_Witness ==
    /\ pc = "strip"
    /\ \A s \in 0..2 : \E i \in DOMAIN kept : stream[kept[i]].src = s
    /\ Len(stream) > Len(tree)

\* C2.  First occurrence wins: no two records of tree share a fingerprint,
\* lookup is the set of the fingerprints of tree, and a message of the
\* stream is kept exactly when no earlier message of the stream, from
\* whatever source, has its fingerprint.
C2_FirstOccurrenceWins ==
    MergePhase =>
        /\ \A i, j \in DOMAIN tree :
              i # j => Fingerprint(tree[i]) # Fingerprint(tree[j])
        /\ lookup = {Fingerprint(tree[i]) : i \in DOMAIN tree}
        /\ Len(kept) = Len(tree)
        /\ \A i \in DOMAIN tree : tree[i] = stream[kept[i]].msg
        /\ \A n \in DOMAIN stream :
              (n \in Range(kept)) <=>
                 ~ \E m \in 1..(n - 1) :
                      Fingerprint(stream[m].msg) = Fingerprint(stream[n].msg)

\* The loop has ended and has dropped a record whose fingerprint came
\* earlier from another source.
C2_Witness ==
    /\ pc = "strip"
    /\ \E m, n \in DOMAIN stream :
          /\ m < n
          /\ stream[m].src # stream[n].src
          /\ Fingerprint(stream[m].msg) = Fingerprint(stream[n].msg)
          /\ n \notin Range(kept)

\* Export k of the argument list is listed earlier in the list too.
Relisted(k) ==
    k >= 1 /\ \E i \in 1..(k - 1) : txt_filepaths.val[i] = txt_filepaths.val[k]

\* Deduplication of a sequence of messages by fingerprint, first one kept.
RECURSIVE Dedup(_, _)
Dedup(msgs, seen) ==
    IF Len(msgs) = 0 THEN <<>>
    ELSE IF Fingerprint(Head(msgs)) \in seen THEN Dedup(Tail(msgs), seen)
    ELSE <<Head(msgs)>> \o Dedup(Tail(msgs), seen \cup {Fingerprint(Head(msgs))})

Msgs(entries) == [i \in DOMAIN entries |-> entries[i].msg]

\* The messages the loop took, those of the listings after the first of an
\* export left out: the stream of the run that lists every export once.
ListedOnce == Msgs(SelectSeq(stream, LAMBDA x : ~Relisted(x.src)))

\* C3.  Idempotence of dedup: when the loop ends, tree is what merging the
\* same inputs with every export listed once gives: no record of a second
\* listing of an export is kept, and nothing else changes.
C3_ListingTwiceIsListingOnce ==
    (pc = "strip" /\ passes = 0) =>
        /\ tree = Dedup(ListedOnce, {})
        /\ \A n \in Range(kept) : ~Relisted(stream[n].src)

\* The loop has ended after taking records from a second listing of an
\* export.
C3_Witness ==
    /\ pc = "strip"
    /\ Len(tree) > 0
    /\ \E n \in DOMAIN stream : Relisted(stream[n].src)

\* The 60-second window of an epoch, by its first second.
WindowStart(d) == d.sec - (d.sec % 60)

\* Two sms records with the same digits of the address, the same body
\* without whitespace, and dates in the same 60-second window.
Alike(a, b) ==
    /\ a.tag = "sms" /\ b.tag = "sms"
    /\ Has(a.attrib, "address") /\ Has(b.attrib, "address")
    /\ sub_non_digits(a.attrib.address) = sub_non_digits(b.attrib.address)
    /\ sub_whitespace(a.attrib.body) = sub_whitespace(b.attrib.body)
    /\ WindowStart(a.attrib.date) = WindowStart(b.attrib.date)

\* C4.  Fingerprint equivalence: two records of the stream that differ in
\* the exact timestamp within one 60-second window, and agree on the digits
\* of the address and on the body without whitespace, have equal
\* fingerprints, and the later one is not kept.
C4_SameWindowDuplicates ==
    MergePhase =>
        \A m, n \in DOMAIN stream :
            (m < n /\ Alike(stream[m].msg, stream[n].msg)) =>
                /\ Fingerprint(stream[m].msg) = Fingerprint(stream[n].msg)
                /\ n \notin Range(kept)

\* The loop has taken two such records with different timestamps.
C4_Witness ==
    /\ pc = "strip"
    /\ \E m, n \in DOMAIN stream :
          /\ m < n
          /\ Alike(stream[m].msg, stream[n].msg)
          /\ stream[m].msg.attrib.date # stream[n].msg.attrib.date
          /\ stream[m].msg.attrib.address # stream[n].msg.attrib.address
          /\ m \in Range(kept)

(***************************************************************************)
(* Properties of parse_textra_file, on runs with one export.               *)
(***************************************************************************)
\* The lines of an export as the parser sees them: stripped, blank ones
\* discarded.
RECURSIVE NonBlank(_)
NonBlank(lines) ==
    IF Len(lines) = 0 THEN <<>>
    ELSE IF Len(strip(Head(lines))) = 0 THEN NonBlank(Tail(lines))
    ELSE <<strip(Head(lines))>> \o NonBlank(Tail(lines))

\* The line parses on its own as a message.
IsStart(line) == ~parse_textra_line(line, None, None).raised

\* The lines after the header in blocks: a message-start line opens a block
\* and a line that does not parse joins the block that is open.
RECURSIVE Blocks(_, _)
Blocks(lines, done) ==
    IF Len(lines) = 0 THEN done
    ELSE IF IsStart(Head(lines))
    THEN Blocks(Tail(lines), Append(done, <<Head(lines)>>))
    ELSE Blocks(Tail(lines),
                [done EXCEPT ![Len(done)] = Append(@, Head(lines))])

\* The record of a block: that of its message-start line, with the
\* continuation lines added to the body after single spaces.
BlockRecord(block, start) ==
    [start EXCEPT !.attrib.body =
        join(" ", <<start.attrib.body>> \o Tail(block))]

\* The records of a well-formed export, header first.
ExpectedOf(header, blocks) ==
    [i \in DOMAIN blocks |->
        BlockRecord(blocks[i],
                    parse_textra_line(blocks[i][1], Some(header.number),
                                      Some(header.name)).val)]

Expected(lines) ==
    ExpectedOf(get_name_and_number(Head(lines)), Blocks(Tail(lines), <<>>))

\* A header with "(", then a message-start line, then any lines.
WellFormed(lines) ==
    /\ Len(lines) >= 2
    /\ ~get_name_and_number(lines[1]).raised
    /\ IsStart(lines[2])

IsPrefix(a, b) == Len(a) <= Len(b) /\ a = SubSeq(b, 1, Len(a))

\* The only export of the run.
TheExport == txt_filepaths.val[1]

Continuation(lines, yielded, whole) ==
    WellFormed(lines) =>
        /\ raised = ""
        /\ IsPrefix(yielded, whole)
        /\ src >= 2 => yielded = whole

\* C5.  Continuation reconstruction: on an export whose lines after the
\* header are message-start lines, each followed by lines that do not parse
\* as a message, the parser raises nothing and yields, in order, exactly one
\* record for each message-start line, whose body is the body of that line
\* and its continuation lines joined with single spaces.
C5_ContinuationReconstruction ==
    (txt_filepaths.some /\ Len(txt_filepaths.val) = 1) =>
        Continuation(NonBlank(TheExport), Msgs(stream),
                     Expected(NonBlank(TheExport)))

\* The export is read to its end and had a continuation line and two
\* messages.
C5_Witness ==
    /\ pc = "strip"
    /\ WellFormed(NonBlank(TheExport))
    /\ Len(stream) = 2
    /\ Len(NonBlank(TheExport)) > 3
    /\ stream[1].msg.attrib.body = "Hi world"

JaneExport == <<HeaderJane, LineHi, LineHello>>
JaneExportComma == <<HeaderJane, LineHiComma, LineHelloComma>>

\* The run on the export alone has ended with two records: the first
\* received, from "+1 555-0100" with body "Hi", the second sent with body
\* "Hello back", both with contact_name "Jane Doe".
TwoJaneRecords ==
    /\ raised = ""
    /\ Len(stream) = 2
    /\ tree = Msgs(stream)
    /\ \A i \in 1..2 :
          /\ tree[i].tag = "sms"
          /\ tree[i].attrib.contact_name = "Jane Doe"
          /\ tree[i].attrib.address = "+1 555-0100"
    /\ tree[1].attrib.type = "1"
    /\ tree[1].attrib.body = "Hi"
    /\ tree[2].attrib.type = "2"
    /\ tree[2].attrib.body = "Hello back"

ParseOver == src >= 2 \/ pc = "failed"

\* C6 as stated.  End-to-end scenario with the timestamps "[1/2/24, 9:05 AM]"
\* and "[1/2/24, 9:06 AM]": the parse of the export ends with the two
\* records.
C6_ScenarioWithComma ==
    (txt_filepaths = Some(<<JaneExportComma>>) /\ ParseOver) => TwoJaneRecords

\* C6.  End-to-end scenario with the timestamps written "[1/2/24 9:05 AM]"
\* and "[1/2/24 9:06 AM]", without the comma: the parse of the export
\* raises nothing and ends with the two records.
C6_Scenario ==
    txt_filepaths = Some(<<JaneExport>>) =>
        /\ raised = ""
        /\ ParseOver => TwoJaneRecords

C6_Witness ==
    /\ txt_filepaths = Some(<<JaneExport>>)
    /\ pc = "strip"
    /\ Len(tree) = 2

\* C10.  The parser always ends without an error once a header is found:
\* whatever lines follow a header with "(", the run of parse_textra_file
\* raises nothing.
C10_ParserNeverRaisesAfterHeader ==
    (src = 1 /\ name.some) => raised = ""

(***************************************************************************)
(* Properties of the corrective transforms.                                *)
(***************************************************************************)
\* strip_texts was called and has returned.
StripReturned ==
    strip_phrases.some /\ pc \in {"strip_invalid", "fix", "write", "done"}

\* C7.  Strip-by-phrase convergence: when strip_texts has returned, no
\* record left in tree has a body whose whitespace-trimmed value is in the
\* phrase set, wherever the matching records were.
C7_StripConverges ==
    StripReturned =>
        \A i \in DOMAIN tree :
            Has(tree[i].attrib, "body") =>
                strip(tree[i].attrib.body) \notin strip_phrases.val

\* strip_texts has returned after two passes that removed records and one
\* that found none, and records are left.
C7_Witness ==
    /\ StripReturned
    /\ passes >= 3
    /\ Len(tree) > 0
    /\ Len(tree) + 3 <= Len(before)
    /\ \A i \in DOMAIN tree : Has(tree[i].attrib, "body")

\* strip_invalid_address was called last and has returned.
StripInvalidReturned == flag_strip_invalid_address /\ pc = "fix"

Valid(addr) == ~(Has(addr, "address") /\ addr.address = "insert-address-token")

\* C8.  Strip-invalid-address removes every sentinel entry: when
\* strip_invalid_address has returned, every addrs list of every mms record
\* is the list it was with exactly the entries of address
\* "insert-address-token" taken out.
C8_NoSentinelLeft ==
    StripInvalidReturned =>
        \A i \in DOMAIN tree :
            tree[i].tag = "mms" =>
                \A a \in DOMAIN tree[i].addrs :
                    tree[i].addrs[a] = SelectSeq(before[i].addrs[a], Valid)

\* fix_sent_from_address was called and has returned, or has raised.
FixRan == flag_fix_sent_from_address /\ pc \in {"write", "done", "failed"}

\* The participants of type 137 of a record with one addrs child.
SentFrom(e) == SelectSeq(e.addrs[1], LAMBDA x : x.type = "137")

\* An mms record without address attribute that has a participant of type
\* 137 with a non-empty address.
MissingWithSender(e) ==
    /\ e.tag = "mms"
    /\ ~Has(e.attrib, "address")
    /\ Len(e.addrs) = 1
    /\ \E k \in DOMAIN e.addrs[1] :
          e.addrs[1][k].type = "137" /\ e.addrs[1][k].address # ""

\* C9.  Missing-address fix: the address that fix_sent_from_address sets on
\* an mms record that had none and has a participant of type 137 with a
\* non-empty address is the "~"-join of the addresses of exactly its
\* participants of type 137, in their order; when the function returns,
\* every such record has it.
C9_MissingAddressFixed ==
    FixRan =>
        \A i \in DOMAIN before :
            MissingWithSender(before[i]) =>
                /\ pc # "failed" => Has(tree[i].attrib, "address")
                /\ Has(tree[i].attrib, "address") =>
                      tree[i].attrib.address =
                          join("~", [k \in DOMAIN SentFrom(before[i]) |->
                                        SentFrom(before[i])[k].address])

\* The function has returned and has given "A~B" to a record with the two
\* participants of type 137 "A" and "B", and "A" to one with a participant
\* of another type.
C9_Witness ==
    /\ flag_fix_sent_from_address
    /\ pc = "write"
    /\ \E i, j \in DOMAIN before :
          /\ MissingWithSender(before[i])
          /\ Len(SentFrom(before[i])) = 2
          /\ tree[i].attrib.address = "A~B"
          /\ MissingWithSender(before[j])
          /\ Len(SentFrom(before[j])) < Len(before[j].addrs[1])
          /\ tree[j].attrib.address = "A"

(***************************************************************************)
(* Runs of main as a whole: an archive or none, a list of exports or none, *)
(* no corrective transform.                                                *)
(***************************************************************************)
\* Archive records: two sms with the address and body of LineHi, one a
\* millisecond before the minute of LineHi and one thirty seconds into it;
\* and an mms without parts child.
MainRecords ==
    { ArchiveSms("15550100", 1704186299, 999, "Hi"),
      ArchiveSms("15550100", 1704186330, 0, "Hi"),
      ArchiveMms(1704186330, 0, None, None) }

\* Exports: two with a header that parses, one whose first non-blank line
\* has no "(".
MainExports ==
    { <<HeaderJane, LineHi>>,
      <<HeaderBob, LineBobHi>>,
      <<"", HeaderBad, LineHi>> }

InitMain ==
    \E xml \in {None} \cup {Some(a) : a \in SeqsUpTo(MainRecords, MaxArchive)},
       txts \in {None} \cup {Some(f) : f \in SeqsUpTo(MainExports, MaxFiles)} :
        Start(xml, txts, None, FALSE, FALSE)

SpecMain == InitMain /\ [][Next]_vars

\* C11.  Missing input sources are not an error: a run of main with no
\* archive and no list of exports raises nothing, and what it writes is an
\* archive with no record and count "0".
C11_MissingInputsEmptyArchive ==
    (xml_filepath = None /\ txt_filepaths = None) =>
        /\ raised = ""
        /\ pc = "done" => output = Some([count |-> "0", children |-> <<>>])

\* The first non-blank line of export k has no "(".
MalformedAt(k) ==
    /\ Len(NonBlank(txt_filepaths.val[k])) > 0
    /\ find(NonBlank(txt_filepaths.val[k])[1], "(") = 0

\* The merge loop has taken every record of the archive and every export
\* to its end, and nothing was raised.
AllConsumed ==
    /\ raised = ""
    /\ txt_filepaths.some
    /\ src = Len(txt_filepaths.val) + 1
    /\ Cardinality({n \in DOMAIN stream : stream[n].src = 0}) = Len(read_tree)

\* Some export of the list has a first non-blank line without "(".
MalformedHeader ==
    txt_filepaths.some /\ \E k \in DOMAIN txt_filepaths.val : MalformedAt(k)

\* C12.  Malformed header is fatal with no partial output: a run with an
\* export, at any place of the list, whose first non-blank line has no "("
\* never gets past the merge loop, where it goes on or has failed, and
\* nothing is ever written in it; and in every run, when the output has
\* been written every record of every source had been consumed without
\* error.
C12_MalformedHeaderFatal ==
    /\ MalformedHeader => (output = None /\ pc \in {"chain", "merge", "failed"})
    /\ output.some => (pc = "done" /\ AllConsumed)

\* The run has failed with ValueError on the malformed header of its second
\* export, after keeping records of the archive and of the first export,
\* and nothing was written.
C12_Witness ==
    /\ pc = "failed"
    /\ raised = "ValueError"
    /\ Len(txt_filepaths.val) = 2
    /\ ~MalformedAt(1)
    /\ MalformedAt(2)
    /\ src = 2
    /\ \E m, n \in Range(kept) : stream[m].src = 0 /\ stream[n].src = 1
    /\ output = None

\* C13.  The fingerprint function is total: make_lookup_tuple returns a
\* triple for every sms or mms record of the archive that carries a date,
\* the first component being the digits of "NO-ADDRESS" for a record
\* without address attribute, and the merge loop does not fail on a record
\* of the archive.
C13_FingerprintTotal ==
    /\ \A n \in DOMAIN read_tree :
          (read_tree[n].tag \in {"sms", "mms"} /\ Has(read_tree[n].attrib, "date"))
             => /\ ~make_lookup_tuple(read_tree[n]).raised
                /\ Len(make_lookup_tuple(read_tree[n]).val) = 3
                /\ ~Has(read_tree[n].attrib, "address") =>
                      make_lookup_tuple(read_tree[n]).val[1] =
                          sub_non_digits("NO-ADDRESS")
    /\ ~(pc = "failed" /\ txt_filepaths.some /\ src = 0)

(***************************************************************************)
(* Properties of fix_sent_from_address, on the runs of the address         *)
(* transforms.                                                             *)
(***************************************************************************)
\* fix_sent_from_address was called and has returned.
FixReturned == flag_fix_sent_from_address /\ pc \in {"write", "done"}

\* fix_sent_from_address was called and has raised.
FixRaised ==
    /\ flag_fix_sent_from_address
    /\ pc = "failed"
    /\ txt_filepaths.some
    /\ src = Len(txt_filepaths.val) + 1

\* An mms record without address attribute that has no participant of type
\* 137 and no participant at all: no addrs child, or an empty one.
Participantless(e) ==
    /\ e.tag = "mms"
    /\ ~Has(e.attrib, "address")
    /\ \A a \in DOMAIN e.addrs : Len(e.addrs[a]) = 0

\* C14.  Fix-missing-address tolerates participant-less records: in a run
\* where fix_sent_from_address meets such a record, at any place of the
\* archive, the function does not raise, and when it has returned the
\* record has the empty address.
C14_ParticipantlessTolerated ==
    (FixReturned \/ FixRaised) =>
        \A i \in DOMAIN before :
            Participantless(before[i]) =>
                /\ ~FixRaised
                /\ Has(tree[i].attrib, "address")
                /\ tree[i].attrib.address = ""

\* An mms record without address attribute and with one addrs child.
MissingOne(e) ==
    /\ e.tag = "mms"
    /\ ~Has(e.attrib, "address")
    /\ Len(e.addrs) = 1

\* C15, as claimed.  The address given to an mms record that had none is
\* the "~"-join of all its participant addresses if and only if it has no
\* participant of type 137; with at least one, even of empty address, it is
\* the join of the addresses of those of type 137 only.
C15_FallbackIffNoSender ==
    FixReturned =>
        \A i \in DOMAIN before :
            MissingOne(before[i]) =>
                tree[i].attrib.address =
                    IF Len(SentFrom(before[i])) = 0
                    THEN join("~", Addresses(before[i].addrs[1]))
                    ELSE join("~", Addresses(SentFrom(before[i])))

\* The join of the addresses of the participants of type 137 is the empty
\* string: there is none, or there is one and its address is empty.
EmptySenderJoin(e) ==
    \/ Len(SentFrom(e)) = 0
    \/ Len(SentFrom(e)) = 1 /\ Get(SentFrom(e)[1], "address", "") = ""

\* C15.  Fallback trigger of fix-missing-address: the address given to an
\* mms record that had none is the "~"-join of all its participant
\* addresses if and only if the join of the addresses of its participants
\* of type 137 is the empty string (no such participant, or a single one of
\* empty address); otherwise it is the join of those of type 137 only.
C15_FallbackIffEmptyJoin ==
    FixReturned =>
        \A i \in DOMAIN before :
            MissingOne(before[i]) =>
                tree[i].attrib.address =
                    IF EmptySenderJoin(before[i])
                    THEN join("~", Addresses(before[i].addrs[1]))
                    ELSE join("~", Addresses(SentFrom(before[i])))

\* The function has returned; it gave one record, whose only participant
\* of type 137 has the empty address, the join of all its addresses, and
\* one with a participant of type 137 and another participant the address
\* of the former alone.
C15_Witness ==
    /\ FixReturned
    /\ \E i, j \in DOMAIN before :
          /\ MissingOne(before[i])
          /\ Len(SentFrom(before[i])) = 1
          /\ EmptySenderJoin(before[i])
          /\ Len(before[i].addrs[1]) = 2
          /\ tree[i].attrib.address # ""
          /\ MissingOne(before[j])
          /\ Len(SentFrom(before[j])) = 1
          /\ Len(before[j].addrs[1]) = 2
          /\ tree[j].attrib.address = "A"

(***************************************************************************)
(* Properties of the loop of strip_texts, on the strip runs.               *)
(***************************************************************************)
\* strip_texts has just returned: before is tree as it was given.
StripJustReturned == strip_phrases.some /\ pc = "strip_invalid"

\* The record is kept by a filter on the trimmed body (the empty string for
\* a record without body attribute).
Kept(msg) == strip(Get(msg.attrib, "body", "")) \notin strip_phrases.val

\* C16.  The repeated-pass strip loop equals a single filter: the sequence
\* strip_texts leaves is, in content and order, the sequence of the records
\* of the tree it was given whose trimmed body is not in the phrase set.
C16_StripIsFilter ==
    StripJustReturned => tree = SelectSeq(before, Kept)

\* strip_texts has returned after more than one removing pass, from a tree
\* in which two adjacent records matched between two that did not.
C16_Witness ==
    /\ StripJustReturned
    /\ passes >= 3
    /\ \E i \in DOMAIN before :
          /\ i + 3 \in DOMAIN before
          /\ Kept(before[i])
          /\ ~Kept(before[i + 1])
          /\ ~Kept(before[i + 2])
          /\ Kept(before[i + 3])

\* Runs of the loop of strip_texts: an archive of sms records, two of them
\* matching the phrase "p", and the phrase or no phrase set.
LoopRecords ==
    { ArchiveSms("15550100", 1704186300, 0, "p"),
      ArchiveSms("15550100", 1704186360, 0, " p "),
      ArchiveSms("15550100", 1704186300, 0, "q") }

InitLoop ==
    \E a \in SeqsUpTo(LoopRecords, MaxStrip), phrases \in {None, Some({"p"})} :
        Start(Some(a), Some(<<>>), phrases, FALSE, FALSE)

\* A run goes on as long as it has a step to take.
SpecStripFair == InitLoop /\ [][NextArchive]_vars /\ WF_vars(NextArchive)

\* The records of the tree given to strip_texts that match a phrase.
Matching == {i \in DOMAIN before : ~Kept(before[i])}

\* The loop of strip_texts is running or has just ended.
InStripLoop ==
    strip_phrases.some /\ passes > 0 /\ pc \in {"strip", "strip_invalid"}

\* A pass of the loop that does not end it.
PassGoesOn == pc = "strip" /\ strip_phrases.some /\ pc' = "strip"

\* C17.  The strip-by-phrase loop terminates: the number of passes is at
\* most the number of matching records plus one, every pass that does not
\* end the loop removes at least one record, and the loop is eventually
\* left.
C17_StripTerminates ==
    /\ [](InStripLoop => passes <= Cardinality(Matching) + 1)
    /\ [][PassGoesOn => Len(tree') < Len(tree)]_vars
    /\ (pc = "strip") ~> (pc = "strip_invalid")

\* The loop has ended with as many passes as the bound allows: two
\* adjacent matching records, one removed by each of two passes, and the
\* pass that found nothing.
C17_Witness ==
    /\ StripJustReturned
    /\ passes = 3
    /\ Cardinality(Matching) = 2
    /\ Len(before) = Len(tree) + 2
    /\ Len(tree) > 0

(***************************************************************************)
(* Clock skew between sources, on the runs of main as a whole.             *)
(***************************************************************************)
\* The difference of two epochs less than a minute apart, in milliseconds.
DiffMs(a, b) == (a.sec - b.sec) * SEC_TO_MS + (a.ms - b.ms)

\* Two sms records with the same digits of the address and the same body
\* without whitespace whose timestamps differ by less than 60 000 ms.
Skewed(a, b) ==
    /\ a.tag = "sms" /\ b.tag = "sms"
    /\ sub_non_digits(a.attrib.address) = sub_non_digits(b.attrib.address)
    /\ sub_whitespace(a.attrib.body) = sub_whitespace(b.attrib.body)
    /\ a.attrib.date.sec - b.attrib.date.sec \in -MIN_TO_SEC..MIN_TO_SEC
    /\ DiffMs(a.attrib.date, b.attrib.date) < MIN_TO_SEC * SEC_TO_MS
    /\ DiffMs(b.attrib.date, a.attrib.date) < MIN_TO_SEC * SEC_TO_MS

\* The minute of an epoch, counted from the epoch's origin.
MinuteOf(d) == d.sec \div MIN_TO_SEC

\* C18, as claimed.  Clock-skew tolerance: of two copies of a message that
\* come from two sources with timestamps less than 60 000 ms apart, the
\* second is not kept.
C18_SkewUnderAMinute ==
    MergePhase =>
        \A m, n \in DOMAIN stream :
            (/\ m < n
             /\ stream[m].src # stream[n].src
             /\ Skewed(stream[m].msg, stream[n].msg))
                => n \notin Range(kept)

\* C18.  Clock-skew tolerance: of two copies of a message that come from
\* two sources with timestamps less than 60 000 ms apart and in the same
\* minute of the epoch, the second is not kept.
C18_SkewWithinTheMinute ==
    MergePhase =>
        \A m, n \in DOMAIN stream :
            (/\ m < n
             /\ stream[m].src # stream[n].src
             /\ Skewed(stream[m].msg, stream[n].msg)
             /\ MinuteOf(stream[m].msg.attrib.date) =
                    MinuteOf(stream[n].msg.attrib.date))
                => n \notin Range(kept)

\* The loop has ended: it kept a record of the archive and dropped the
\* copy from an export stamped thirty seconds earlier in the same minute.
C18_Witness ==
    /\ pc = "strip"
    /\ \E m, n \in DOMAIN stream :
          /\ stream[m].src = 0
          /\ stream[n].src > 0
          /\ Skewed(stream[m].msg, stream[n].msg)
          /\ DiffMs(stream[m].msg.attrib.date, stream[n].msg.attrib.date) = 30000
          /\ MinuteOf(stream[m].msg.attrib.date) =
                MinuteOf(stream[n].msg.attrib.date)
          /\ m \in Range(kept)
          /\ n \notin Range(kept)

(***************************************************************************)
(* Independence of the records in fix_sent_from_address, on the runs of    *)
(* the address transforms.                                                 *)
(***************************************************************************)
\* C19.  No leakage between records in fix-missing-address: when
\* fix_sent_from_address has returned, every record is what the function
\* makes of that record taken alone, so the address given to an mms depends
\* on its own participant entries only, and a record that had an address
\* attribute, or is an sms, is unchanged.
C19_NoLeakage ==
    FixReturned =>
        \A i \in DOMAIN before :
            /\ ~fix_sent_from_address(<<before[i]>>).raised
            /\ tree[i] = fix_sent_from_address(<<before[i]>>).children[1]

(***************************************************************************)
(* The archive that is written, on runs with every combination of the      *)
(* corrective transforms.                                                  *)
(***************************************************************************)
\* Archive records: an mms with the address "123"; an mms of the same
\* minute and text without address attribute, sent from "123", with a
\* participant of the invalid address; and two sms, one of body "p".
FinalRecords ==
    { [ArchiveMms(1704186300, 0, Some(<<"pic">>), None)
          EXCEPT !.attrib = SetItem(@, "address", "123")],
      ArchiveMms(1704186300, 0, Some(<<"pic">>),
                 Some(<< [type |-> "137", address |-> "123"],
                         [type |-> "151", address |-> InvalidToken] >>)),
      ArchiveSms("15550100", 1704186300, 0, "p"),
      ArchiveSms("15550100", 1704186300, 0, "q") }

InitFinal ==
    \E a \in SeqsUpTo(FinalRecords, MaxArchive),
       phrases \in {None, Some({"p"})},
       stripInvalid \in BOOLEAN, fixSentFrom \in BOOLEAN :
        Start(Some(a), Some(<<>>), phrases, stripInvalid, fixSentFrom)

SpecFinal == InitFinal /\ [][NextArchive]_vars

\* C20.  The final archive is duplicate-free after the corrective
\* transforms: no two records of the archive that is written have equal
\* fingerprints, whatever transforms were enabled.
C20_FinalDuplicateFree ==
    output.some =>
        \A i, j \in DOMAIN output.val.children :
            i # j => Fingerprint(output.val.children[i]) #
                        Fingerprint(output.val.children[j])

====
